---- MODULE Spec2Model ----
(***************************************************************************)
(* Model of the stock-data path of DataCollectorAgent                      *)
(* (src/agents/data_collector.py): the source priority resolver            *)
(* (_get_stock_data_multi_source), the authoritative adapter               *)
(* (_fetch_indian_api), the web-search path (_scrape_stock_data_from_web), *)
(* the extractors and the aggregator (_aggregate_stock_findings).          *)
(*                                                                         *)
(* Units.  Prices are integers in half rupees (50 paise), the finest unit  *)
(* in which 999,999,999 rupees is a 32-bit integer; percent changes are    *)
(* integers in 1/100 percent.  The mean computed at line 335 is kept as an *)
(* exact fraction num/den of half rupees; a rendered price (f"{x:,.2f}")   *)
(* is a whole number of paise.                                             *)
(*                                                                         *)
(* Text.  A text is a sequence of tokens, a token a string; Python's       *)
(* `word in text` is modelled by the table KeywordsIn, which lists, for    *)
(* every token of the vocabulary, the keywords that occur in the token as  *)
(* substrings after lower-casing.                                          *)
(***************************************************************************)
EXTENDS Integers, Sequences, FiniteSets, TLC

VARIABLES
    pc,          \* position of the request in the code
    api_key,     \* os.getenv("INDIAN_API_KEY", "") (line 156)
    indian_data, \* what _fetch_indian_api returned (line 158)
    stock_info,  \* the stock_info dict of _scrape_stock_data_from_web (241-248)
    queries,     \* number of search queries issued so far (line 260)
    calls,       \* the external calls and tiers run so far, in order
    avg_price,   \* local avg_price of _aggregate_stock_findings (line 335)
    result,      \* the value _get_stock_data_multi_source returns
    snippet,     \* the text handed to the extractors (line 263)
    title,       \* the title handed to the extractors (line 264)
    before,      \* stock_info as it was before the extractors ran on snippet
    response,    \* the response the endpoint gave to the fetch (line 175)
    processed,   \* the hrefs of the search results processed so far (line 265)
    lookups,     \* what the three company lookups of collect_data met
    collected_data, \* the collected_data dict of collect_data (lines 50-58)
    state        \* the AgentState of the workflow (orchestrator.py 203-209)

vars == <<pc, api_key, indian_data, stock_info, queries, calls, avg_price,
          result, snippet, title, before, response, processed, lookups,
          collected_data, state>>

\* The variables of collect_data and of the workflow around it.
outer == <<lookups, collected_data, state>>

(***************************************************************************)
(* Bounds of the model.                                                    *)
(***************************************************************************)
MaxPrices == 3
MaxTrendVotes == 2
MaxRecVotes == 3
MaxSources == 1
MaxSnippets == 2

(***************************************************************************)
(* Python values.                                                          *)
(***************************************************************************)
None == [none |-> TRUE]

\* list.count(v)
RECURSIVE Count(_, _)
Count(list, v) ==
    IF list = <<>> THEN 0
    ELSE (IF Head(list) = v THEN 1 ELSE 0) + Count(Tail(list), v)

\* sum(list)
RECURSIVE Sum(_)
Sum(list) == IF list = <<>> THEN 0 ELSE Head(list) + Sum(Tail(list))

\* len(set(list))
DistinctCount(list) == Cardinality({list[i] : i \in DOMAIN list})

Max(a, b) == IF a >= b THEN a ELSE b

Abs(a) == IF a >= 0 THEN a ELSE -a

(***************************************************************************)
(* _aggregate_stock_findings (lines 330-384).                              *)
(***************************************************************************)

\* Mean over the distinct candidates only (set(prices) instead of prices).
RECURSIVE SumSet(_)
SumSet(S) ==
    IF S = {} THEN 0
    ELSE LET x == CHOOSE y \in S : TRUE IN x + SumSet(S \ {x})

AvgPriceDistinct(prices) ==
    IF prices # <<>>
    THEN [num |-> SumSet({prices[i] : i \in DOMAIN prices}),
          den |-> Cardinality({prices[i] : i \in DOMAIN prices})]
    ELSE None

\* line 335: avg_price = sum(prices) / len(prices) if prices else None
AvgPrice(prices) ==
    IF prices # <<>>
    THEN [num |-> Sum(prices), den |-> Len(prices)]
    ELSE None

\* bool(avg_price) as tested at lines 368 and 369: None and 0.0 are falsy.
Truthy(avg) == avg # None /\ avg.num # 0

\* f"{avg_price:,.2f}" (line 368): the number of paise nearest to num/den
\* half rupees.  At an exact half paisa the digit printed depends on the
\* binary float nearest to the mean, so both neighbours are possible.
Format2dp(avg) ==
    LET q == (50 * avg.num) \div avg.den
        r == (50 * avg.num) % avg.den
    IN  IF 2 * r < avg.den THEN {q}
        ELSE IF 2 * r > avg.den THEN {q + 1}
        ELSE {q, q + 1}

Unavailable == [text |-> "Data unavailable"]

Rupees(d) == [text |-> "rupees", paise |-> d]

\* line 368: price_display
PriceDisplays(avg) ==
    IF Truthy(avg) THEN {Rupees(d) : d \in Format2dp(avg)} ELSE {Unavailable}

\* A tie counted as bullish (>= instead of >).
TrendConsensusTieBullish(trends) ==
    IF trends # <<>>
    THEN LET bullish_count == Count(trends, "bullish")
             bearish_count == Count(trends, "bearish")
         IN  IF bullish_count >= bearish_count THEN "bullish"
             ELSE IF bearish_count > bullish_count THEN "bearish"
             ELSE "neutral"
    ELSE "neutral"

\* lines 338-344: trend consensus
TrendConsensus(trends) ==
    IF trends # <<>>
    THEN LET bullish_count == Count(trends, "bullish")
             bearish_count == Count(trends, "bearish")
         IN  IF bullish_count > bearish_count THEN "bullish"
             ELSE IF bearish_count > bullish_count THEN "bearish"
             ELSE "neutral"
    ELSE "neutral"

\* BUY needs strictly more votes than SELL and HOLD (> instead of >=).
RecConsensusStrictBuy(recs) ==
    IF recs # <<>>
    THEN LET buy_count == Count(recs, "BUY")
             sell_count == Count(recs, "SELL")
             hold_count == Count(recs, "HOLD")
         IN  IF buy_count > sell_count /\ buy_count > hold_count
             THEN [recommendation |-> "BUY",
                   confidence |-> IF buy_count > 2 THEN "Strong" ELSE "Moderate"]
             ELSE IF sell_count > buy_count /\ sell_count >= hold_count
             THEN [recommendation |-> "SELL",
                   confidence |-> IF sell_count > 2 THEN "Strong" ELSE "Moderate"]
             ELSE [recommendation |-> "HOLD", confidence |-> "Moderate"]
    ELSE [recommendation |-> "HOLD", confidence |-> "Low (limited data)"]

\* A winning HOLD graded by its vote count like BUY and SELL.
RecConsensusHoldGraded(recs) ==
    IF recs # <<>>
    THEN LET buy_count == Count(recs, "BUY")
             sell_count == Count(recs, "SELL")
             hold_count == Count(recs, "HOLD")
         IN  IF buy_count >= sell_count /\ buy_count >= hold_count
             THEN [recommendation |-> "BUY",
                   confidence |-> IF buy_count > 2 THEN "Strong" ELSE "Moderate"]
             ELSE IF sell_count > buy_count /\ sell_count >= hold_count
             THEN [recommendation |-> "SELL",
                   confidence |-> IF sell_count > 2 THEN "Strong" ELSE "Moderate"]
             ELSE [recommendation |-> "HOLD",
                   confidence |-> IF hold_count > 2 THEN "Strong" ELSE "Moderate"]
    ELSE [recommendation |-> "HOLD", confidence |-> "Low (limited data)"]

\* The vote is counted even when there are no votes (no `if recs` guard).
RecConsensusNoGuard(recs) ==
    LET buy_count == Count(recs, "BUY")
        sell_count == Count(recs, "SELL")
        hold_count == Count(recs, "HOLD")
    IN  IF buy_count >= sell_count /\ buy_count >= hold_count
        THEN [recommendation |-> "BUY",
              confidence |-> IF buy_count > 2 THEN "Strong" ELSE "Moderate"]
        ELSE IF sell_count > buy_count /\ sell_count >= hold_count
        THEN [recommendation |-> "SELL",
              confidence |-> IF sell_count > 2 THEN "Strong" ELSE "Moderate"]
        ELSE [recommendation |-> "HOLD", confidence |-> "Moderate"]

\* lines 347-363: recommendation consensus and its confidence
RecConsensus(recs) ==
    IF recs # <<>>
    THEN LET buy_count == Count(recs, "BUY")
             sell_count == Count(recs, "SELL")
             hold_count == Count(recs, "HOLD")
         IN  IF buy_count >= sell_count /\ buy_count >= hold_count
             THEN [recommendation |-> "BUY",
                   confidence |-> IF buy_count > 2 THEN "Strong" ELSE "Moderate"]
             ELSE IF sell_count > buy_count /\ sell_count >= hold_count
             THEN [recommendation |-> "SELL",
                   confidence |-> IF sell_count > 2 THEN "Strong" ELSE "Moderate"]
             ELSE [recommendation |-> "HOLD", confidence |-> "Moderate"]
    ELSE [recommendation |-> "HOLD", confidence |-> "Low (limited data)"]

\* The company of the request and ticker = company_name.upper()[:6] (line 151).
Company == "Acme"
Ticker == "ACME"

\* line 376: the estimated change, or "N/A" when there is no trend vote
PriceChangeEst(trends) ==
    IF trends # <<>>
    THEN [text |-> "est.",
          pct |-> Abs(Count(trends, "bullish") - Count(trends, "bearish"))]
    ELSE [text |-> "N/A"]

\* lines 365-384: the dict returned, given the rendering of the price
AggregateStockFindings(info, price_display) ==
    LET sources_count == DistinctCount(info.sources_checked)
        rec == RecConsensus(info.recommendations_found)
    IN  [ticker |-> Ticker,
         company |-> Company,
         current_price |-> price_display,
         price_change_pct |-> PriceChangeEst(info.trends_found),
         trend |-> TrendConsensus(info.trends_found),
         recommendation |-> rec.recommendation,
         confidence |-> rec.confidence,
         sources_analyzed |-> Max(sources_count, 1),
         source |-> [text |-> "Web search", sources |-> sources_count],
         data_type |-> "web_aggregated",
         verified |-> FALSE]

(***************************************************************************)
(* Text: tokens, lower-casing and substring search.                        *)
(***************************************************************************)

\* str.lower() on one token: the tokens of the vocabulary that hold capitals.
Lower(tok) ==
    CASE tok = "Rallies" -> "rallies"
      [] tok = "Bearish" -> "bearish"
      [] tok = "Outperform" -> "outperform"
      [] tok = "Surges" -> "surges"
      [] OTHER -> tok

\* str.lower() on a text
LowerText(text) == [i \in DOMAIN text |-> Lower(text[i])]

\* The keywords of lines 307, 308, 323, 325 and 327 that occur in a token as
\* substrings (Python's `in` is case-sensitive: a capitalised token holds
\* none).  No two tokens of the vocabulary joined by a blank form a keyword
\* across the blank.
KeywordsIn(tok) ==
    CASE tok = "surges" -> {"surges"}
      [] tok = "rallies" -> {"rallies"}
      [] tok = "upgrade" -> {"up"}
      [] tok = "bullish" -> {"bullish"}
      [] tok = "falls" -> {"falls"}
      [] tok = "downgrade" -> {"down"}
      [] tok = "bearish" -> {"bearish"}
      [] tok = "strong buy" -> {"strong buy"}
      [] tok = "outperform" -> {"outperform"}
      [] tok = "sell rating" -> {"sell rating"}
      [] tok = "avoid" -> {"avoid"}
      [] tok = "hold" -> {"hold"}
      [] tok = "shareholders" -> {"hold"}
      [] tok = "neutral" -> {"neutral"}
      [] OTHER -> {}

\* word in text
Contains(word, text) == \E i \in DOMAIN text : word \in KeywordsIn(text[i])

\* any(w in text for w in words)
ContainsAny(words, text) == \E i \in DOMAIN words : Contains(words[i], text)

bullish_words == <<"rises", "gains", "jumps", "surges", "up", "rallies",
                   "bullish", "positive", "growth">>
bearish_words == <<"falls", "drops", "declines", "down", "tumbles",
                   "bearish", "negative", "loss">>
buy_words == <<"strong buy", "buy rating", "outperform", "accumulate">>
sell_words == <<"sell rating", "underperform", "avoid", "reduce">>
hold_words == <<"hold", "neutral", "maintain">>

(***************************************************************************)
(* The extractors (lines 284-328).  Each takes stock_info and returns it   *)
(* as the call leaves it.                                                  *)
(***************************************************************************)

\* The price mention a token holds: the pattern of line 289-291 that matches
\* it (1: rupee sign, 2: rs, 3: inr; 0: none) and the group it captures.
\* The patterns carry no word boundary: the "rs" that ends "investors"
\* marks the number after it like "rs" on its own.
PriceMention(tok) ==
    CASE tok = "(rupee)5" -> [pattern |-> 1, group |-> "5"]
      [] tok = "(rupee)1,050.50" -> [pattern |-> 1, group |-> "1,050.50"]
      [] tok = "(rupee)," -> [pattern |-> 1, group |-> ","]
      [] tok = "rs. 2,075.50" -> [pattern |-> 2, group |-> "2,075.50"]
      [] tok = "inr 999999999" -> [pattern |-> 3, group |-> "999999999"]
      [] tok = "inr 150" -> [pattern |-> 3, group |-> "150"]
      [] tok = "(rupee)150" -> [pattern |-> 1, group |-> "150"]
      [] tok = "(rupee)10" -> [pattern |-> 1, group |-> "10"]
      [] tok = "rs 500,000" -> [pattern |-> 2, group |-> "500,000"]
      [] tok = "investors 250" -> [pattern |-> 2, group |-> "250"]
      [] OTHER -> [pattern |-> 0, group |-> ""]

\* float(match.replace(",", "")) in half rupees; -1 stands for ValueError
\* (line 297)
ParsePrice(group) ==
    CASE group = "5" -> 10
      [] group = "1,050.50" -> 2101
      [] group = "2,075.50" -> 4151
      [] group = "999999999" -> 1999999998
      [] group = "150" -> 300
      [] group = "10" -> 20
      [] group = "500,000" -> 1000000
      [] group = "250" -> 500
      [] OTHER -> -1

\* The bounds 10 and 500000 of line 298, in half rupees.
PriceLow == 20
PriceHigh == 1000000

\* Only the first match of the pattern is looked at (re.search instead of
\* re.findall).
ExtractPatternFirst(pattern, text, prices) ==
    LET hits == {i \in DOMAIN text : PriceMention(text[i]).pattern = pattern}
    IN  IF hits = {} THEN prices
        ELSE LET first == CHOOSE i \in hits : \A j \in hits : i <= j
                 price == ParsePrice(PriceMention(text[first]).group)
             IN  IF price # -1 /\ PriceLow < price /\ price < PriceHigh
                 THEN Append(prices, price) ELSE prices

\* lines 295-301 for the matches of one pattern, in text order
RECURSIVE ExtractPattern(_, _, _)
ExtractPattern(pattern, text, prices) ==
    IF text = <<>> THEN prices
    ELSE LET m == PriceMention(Head(text))
             price == ParsePrice(m.group)
             keep == /\ m.pattern = pattern
                     /\ price # -1
                     /\ PriceLow < price
                     /\ price < PriceHigh
         IN  ExtractPattern(pattern, Tail(text),
                            IF keep THEN Append(prices, price) ELSE prices)

\* lines 284-301: _extract_price_from_text
ExtractPriceFromText(text, info) ==
    [info EXCEPT !.prices_found =
        ExtractPattern(3, text, ExtractPattern(2, text, ExtractPattern(1, text, @)))]

\* The bearish words are looked at only when no bullish word matched (elif).
ExtractTrendFromTextElif(snip, ttl, info) ==
    LET text == LowerText(snip \o ttl)
    IN  IF ContainsAny(bullish_words, text)
        THEN [info EXCEPT !.trends_found = Append(@, "bullish")]
        ELSE IF ContainsAny(bearish_words, text)
        THEN [info EXCEPT !.trends_found = Append(@, "bearish")]
        ELSE info

\* lines 303-317: _extract_trend_from_text
ExtractTrendFromText(snip, ttl, info) ==
    LET text == LowerText(snip \o ttl)
        t1 == IF ContainsAny(bullish_words, text)
              THEN Append(info.trends_found, "bullish")
              ELSE info.trends_found
        t2 == IF ContainsAny(bearish_words, text)
              THEN Append(t1, "bearish")
              ELSE t1
    IN  [info EXCEPT !.trends_found = t2]

\* Three independent tests (if / if / if instead of if / elif / elif).
ExtractRecommendationFromTextAll(snip, ttl, info) ==
    LET text == LowerText(snip \o ttl)
        r1 == IF ContainsAny(buy_words, text)
              THEN Append(info.recommendations_found, "BUY")
              ELSE info.recommendations_found
        r2 == IF ContainsAny(sell_words, text) THEN Append(r1, "SELL") ELSE r1
        r3 == IF ContainsAny(hold_words, text) THEN Append(r2, "HOLD") ELSE r2
    IN  [info EXCEPT !.recommendations_found = r3]

\* lines 319-328: _extract_recommendation_from_text
ExtractRecommendationFromText(snip, ttl, info) ==
    LET text == LowerText(snip \o ttl)
    IN  IF ContainsAny(buy_words, text)
        THEN [info EXCEPT !.recommendations_found = Append(@, "BUY")]
        ELSE IF ContainsAny(sell_words, text)
        THEN [info EXCEPT !.recommendations_found = Append(@, "SELL")]
        ELSE IF ContainsAny(hold_words, text)
        THEN [info EXCEPT !.recommendations_found = Append(@, "HOLD")]
        ELSE info

(***************************************************************************)
(* Exceptions.  The body of a try block either returns a value or raises.  *)
(***************************************************************************)
Raised == [raised |-> TRUE]

Returned(v) == [raised |-> FALSE, value |-> v]

(***************************************************************************)
(* _fetch_indian_api (lines 167-235).  A response of the endpoint:         *)
(*   raises  the GET raised (timeout, connection error)                    *)
(*   status  the HTTP status                                               *)
(*   json    "object", "empty" ({}), or "malformed" (response.json raises) *)
(*   error   the object holds an "error" field                             *)
(*   NSE, BSE       the fields of currentPrice                             *)
(*   price, lastPrice   the generic price fields                           *)
(*   pct     percentChange: a number, a per-exchange object, or missing    *)
(* A field of an object is present with a number, or missing.              *)
(***************************************************************************)
Field(v) == [present |-> TRUE, value |-> v]

Missing == [present |-> FALSE, value |-> 0]

\* dict.get(key, 0)
GetOr0(field) == IF field.present THEN field.value ELSE 0

PctScalar(v) == [kind |-> "scalar", value |-> v]

PctByExchange(nse, bse) == [kind |-> "dict", NSE |-> nse, BSE |-> bse]

PctMissing == [kind |-> "missing"]

Response(raises, status, json, error, nse, bse, price, lastPrice, pct) ==
    [raises |-> raises, status |-> status, json |-> json, error |-> error,
     NSE |-> nse, BSE |-> bse, price |-> price, lastPrice |-> lastPrice,
     pct |-> pct]

\* The thresholds shifted: >= 2 is STRONG BUY and >= -2 is HOLD.
GetRecommendationInclusive(change_pct) ==
    IF change_pct >= 200 THEN "STRONG BUY"
    ELSE IF change_pct > 0 THEN "BUY"
    ELSE IF change_pct >= -200 THEN "HOLD"
    ELSE "SELL"

\* lines 386-395: _get_recommendation, the thresholds in 1/100 percent
GetRecommendation(change_pct) ==
    IF change_pct > 200 THEN "STRONG BUY"
    ELSE IF change_pct > 0 THEN "BUY"
    ELSE IF change_pct > -200 THEN "HOLD"
    ELSE "SELL"

\* The secondary exchange is looked at first (bse_price or nse_price).
ResolvePriceBseFirst(data) ==
    LET nse_price == GetOr0(data.NSE)
        bse_price == GetOr0(data.BSE)
        exchange == IF bse_price # 0 THEN bse_price ELSE nse_price
    IN  IF exchange # 0 THEN exchange
        ELSE IF GetOr0(data.price) # 0 THEN GetOr0(data.price)
        ELSE GetOr0(data.lastPrice)

\* lines 190-199: the price, 0 when no field gives one (x or y is x when x
\* is truthy, that is non-zero, and y otherwise)
ResolvePrice(data) ==
    LET nse_price == GetOr0(data.NSE)
        bse_price == GetOr0(data.BSE)
        exchange == IF nse_price # 0 THEN nse_price ELSE bse_price
    IN  IF exchange # 0 THEN exchange
        ELSE IF GetOr0(data.price) # 0 THEN GetOr0(data.price)
        ELSE GetOr0(data.lastPrice)

\* lines 205-208: the percent change
ResolvePct(pct) ==
    IF pct.kind = "missing" THEN 0
    ELSE IF pct.kind = "dict"
    THEN (IF GetOr0(pct.NSE) # 0 THEN GetOr0(pct.NSE) ELSE GetOr0(pct.BSE))
    ELSE pct.value

\* The record carries verified = False.
QuoteRecordUnverified(price, pct_change) ==
    [ticker |-> Ticker,
     company |-> Company,
     current_price |-> Rupees(50 * price),
     price_change_pct |-> [text |-> "pct", pct |-> pct_change],
     trend |-> IF pct_change > 0 THEN "bullish"
               ELSE IF pct_change < 0 THEN "bearish" ELSE "neutral",
     recommendation |-> GetRecommendation(pct_change),
     confidence |-> IF Abs(pct_change) > 200 THEN "High" ELSE "Moderate",
     sources_analyzed |-> 1,
     source |-> [text |-> "IndianAPI (Live NSE/BSE)"],
     data_type |-> "live",
     verified |-> FALSE]

\* lines 210-231: the record returned for a price and a percent change
QuoteRecord(price, pct_change) ==
    [ticker |-> Ticker,
     company |-> Company,
     current_price |-> Rupees(50 * price),
     price_change_pct |-> [text |-> "pct", pct |-> pct_change],
     trend |-> IF pct_change > 0 THEN "bullish"
               ELSE IF pct_change < 0 THEN "bearish" ELSE "neutral",
     recommendation |-> GetRecommendation(pct_change),
     confidence |-> IF Abs(pct_change) > 200 THEN "High" ELSE "Moderate",
     sources_analyzed |-> 1,
     source |-> [text |-> "IndianAPI (Live NSE/BSE)"],
     data_type |-> "live",
     verified |-> TRUE]

\* lines 188-231: the record built from a well-formed object
ParseQuote(data) ==
    LET price == ResolvePrice(data)
    IN  IF price = 0 THEN None
        ELSE QuoteRecord(price, ResolvePct(data.pct))

\* lines 170-231: the body of the try block
FetchBody(resp) ==
    IF resp.raises THEN Raised
    ELSE IF resp.status # 200 THEN Returned(None)
    ELSE IF resp.json = "malformed" THEN Raised
    ELSE IF resp.json = "empty" \/ resp.error THEN Returned(None)
    ELSE Returned(ParseQuote(resp))

\* The exception of the body is not caught.
FetchIndianApiNoCatch(resp) ==
    IF FetchBody(resp).raised THEN Raised ELSE FetchBody(resp).value

\* lines 169-235: _fetch_indian_api, the except clause turning an exception
\* into None
FetchIndianApi(resp) ==
    IF FetchBody(resp).raised THEN None ELSE FetchBody(resp).value

\* The responses the endpoint gives in the model.
ApiResponses ==
    { Response(TRUE, 0, "object", FALSE, Missing, Missing, Missing, Missing, PctMissing),
      Response(FALSE, 500, "object", FALSE, Field(2469), Missing, Missing, Missing,
               PctScalar(310)),
      Response(FALSE, 200, "malformed", FALSE, Missing, Missing, Missing, Missing,
               PctMissing),
      Response(FALSE, 200, "empty", FALSE, Missing, Missing, Missing, Missing,
               PctMissing),
      Response(FALSE, 200, "object", TRUE, Field(2469), Missing, Missing, Missing,
               PctScalar(310)),
      Response(FALSE, 200, "object", FALSE, Missing, Missing, Missing, Missing,
               PctScalar(150)),
      Response(FALSE, 200, "object", FALSE, Field(2469), Field(2468), Missing, Missing,
               PctScalar(310)),
      Response(FALSE, 200, "object", FALSE, Field(0), Field(1960), Missing, Missing,
               PctByExchange(Field(0), Field(-200))),
      Response(FALSE, 200, "object", FALSE, Missing, Missing, Field(901), Missing,
               PctMissing),
      Response(FALSE, 200, "object", FALSE, Missing, Missing, Missing, Field(154),
               PctScalar(150)) }

(***************************************************************************)
(* _get_stock_data_multi_source (lines 145-165).                           *)
(***************************************************************************)
ApiKeys == {"", "your_indian_api_key_here", "live-key"}

\* The key is tested but never used to decide (the fetch is always tried).
KeyConfiguredAlways(key) == TRUE

\* line 157: api_key and api_key != "your_indian_api_key_here"
KeyConfigured(key) == key # "" /\ key # "your_indian_api_key_here"

\* "N/A" in current_price: no rendering of a price holds it
HoldsNA(display) == display.text = "N/A"

\* The placeholder test inverted ("N/A" in ... instead of "N/A" not in ...).
AcceptedInverted(data) ==
    /\ data # None
    /\ data.current_price # [text |-> ""]
    /\ HoldsNA(data.current_price)

\* Whatever the fetch returned is taken, None included.
AcceptedAny(data) == TRUE

\* line 159: indian_data and indian_data.get("current_price") and
\*           "N/A" not in indian_data.get("current_price", "")
Accepted(data) ==
    /\ data # None
    /\ data.current_price # [text |-> ""]
    /\ ~HoldsNA(data.current_price)

(***************************************************************************)
(* _scrape_stock_data_from_web (lines 237-282).                            *)
(***************************************************************************)

\* lines 241-248
EmptyInfo ==
    [prices_found |-> <<>>, trends_found |-> <<>>,
     recommendations_found |-> <<>>, sources_checked |-> <<>>]

\* The four queries of lines 251-256.
NumQueries == 4

\* source[:50]: the hrefs of the model longer than 50 characters
Prefix50(href) ==
    CASE href = "https://markets.example.com/quotes/india/equities/acme-ltd/overview"
            -> "https://markets.example.com/quotes/india/equities/"
      [] href = "https://markets.example.com/quotes/india/equities/acme-ltd/forecast"
            -> "https://markets.example.com/quotes/india/equities/"
      [] OTHER -> href

\* A search result r; has_body is FALSE when r["body"] is None.
SearchResult(body, ttl, href) ==
    [body |-> body, title |-> ttl, href |-> href, has_body |-> TRUE]

NoBodyResult(ttl, href) ==
    [body |-> <<>>, title |-> ttl, href |-> href, has_body |-> FALSE]

\* lines 263-276: one result of a query; None when line 263 raises (body is
\* None, which has no lower())
ProcessResult(info, r) ==
    IF ~r.has_body THEN None
    ELSE LET snip == LowerText(r.body)
             i1 == [info EXCEPT !.sources_checked = Append(@, Prefix50(r.href))]
             i2 == ExtractPriceFromText(snip, i1)
             i3 == ExtractTrendFromText(snip, r.title, i2)
         IN  ExtractRecommendationFromText(snip, r.title, i3)

\* A result that raises takes the evidence of the request with it.
RECURSIVE ProcessResultsForget(_, _)
ProcessResultsForget(info, results) ==
    IF results = <<>> THEN [info |-> info, raised |-> FALSE]
    ELSE LET next == ProcessResult(info, Head(results))
         IN  IF next = None THEN [info |-> EmptyInfo, raised |-> TRUE]
             ELSE ProcessResultsForget(next, Tail(results))

\* lines 262-276: the results of one query, in order, up to one that raises
RECURSIVE ProcessResults(_, _)
ProcessResults(info, results) ==
    IF results = <<>> THEN [info |-> info, raised |-> FALSE]
    ELSE LET next == ProcessResult(info, Head(results))
         IN  IF next = None THEN [info |-> info, raised |-> TRUE]
             ELSE ProcessResults(next, Tail(results))

\* The bodies, titles and hrefs of the search results of the model.
Bodies ==
    { <<>>,
      <<"profit">>,
      <<"Surges">>,
      <<"falls", "upgrade">>,
      <<"downgrade", "hold">>,
      <<"avoid", "strong buy">>,
      <<"sell rating", "neutral">>,
      <<"shareholders", "(rupee)1,050.50", "(rupee)5">>,
      <<"inr 999999999", "rs. 2,075.50", "(rupee),">>,
      <<"inr 150", "(rupee)1,050.50", "bullish">>,
      <<"(rupee)1,050.50", "rs 500,000", "(rupee)150">>,
      <<"investors 250", "(rupee)10", "inr 150">> }

Titles == { <<>>, <<"Rallies">>, <<"Bearish", "Outperform">> }

Hrefs == { "", "https://nse.example/acme" }

Results == { SearchResult(b, t, h) : b \in Bodies, t \in Titles, h \in Hrefs }

\* What one ddgs.text call gives in the model: a list of at most
\* max_results = 3 results (line 261).
SearchOutcomes ==
    { <<>>,
      << SearchResult(<<"Surges">>, <<"Bearish", "Outperform">>,
                      "https://nse.example/acme") >>,
      << SearchResult(<<"inr 150", "(rupee)1,050.50", "bullish">>, <<>>,
            "https://markets.example.com/quotes/india/equities/acme-ltd/overview"),
         SearchResult(<<"downgrade", "hold">>, <<>>,
            "https://markets.example.com/quotes/india/equities/acme-ltd/forecast") >>,
      << SearchResult(<<"sell rating", "neutral">>, <<"Rallies">>, ""),
         NoBodyResult(<<>>, "https://nse.example/acme"),
         SearchResult(<<"avoid", "strong buy">>, <<>>, "") >> }

(***************************************************************************)
(* The lookups of collect_data other than the stock lookup (lines 98-143). *)
(***************************************************************************)

\* A dict with no key.
EmptyDict == <<>>

\* dict.get(key, ""), for the keys whose values are strings
GetOrEmpty(dict, key) == IF key \in DOMAIN dict THEN dict[key] ELSE ""

\* The keys of the other dict are dropped (assignment instead of update).
UpdateReplace(dict, other) == other

\* dict.update(other)
Update(dict, other) ==
    [k \in DOMAIN dict \cup DOMAIN other |->
        IF k \in DOMAIN other THEN other[k] ELSE dict[k]]

\* What wiki.page(term) gives: it raises, or a page that exists or not.
Page(exists, summary, fullurl, ttl) ==
    [raises |-> FALSE, exists |-> exists, summary |-> summary,
     fullurl |-> fullurl, title |-> ttl]

RaisingPage ==
    [raises |-> TRUE, exists |-> FALSE, summary |-> "", fullurl |-> "",
     title |-> ""]

NoPage == Page(FALSE, "", "", "")

\* line 106: page.summary[:800] if len(page.summary) > 800 else page.summary;
\* one summary of the model is longer than 800 characters
Summary800(summary) ==
    IF summary = "Acme Ltd is an Indian conglomerate ... (1200 characters)"
    THEN "Acme Ltd is an Indian conglomerate ... (first 800 characters)"
    ELSE summary

\* lines 101-112: the body of the try block, on the pages of the three terms
RECURSIVE SearchWikipediaBody(_)
SearchWikipediaBody(pages) ==
    IF pages = <<>> THEN Returned(None)
    ELSE LET page == Head(pages)
         IN  IF page.raises THEN Raised
             ELSE IF page.exists
             THEN Returned([description |-> Summary800(page.summary),
                            url |-> page.fullurl,
                            title |-> page.title])
             ELSE SearchWikipediaBody(Tail(pages))

\* lines 98-115: _search_wikipedia
SearchWikipedia(pages) ==
    IF SearchWikipediaBody(pages).raised THEN None
    ELSE SearchWikipediaBody(pages).value

\* The answers of the encyclopedia in the model, one page per search term.
WikiOutcomes ==
    { <<RaisingPage, NoPage, NoPage>>,
      <<NoPage, NoPage, NoPage>>,
      <<NoPage, RaisingPage, NoPage>>,
      <<Page(TRUE, "Acme Ltd is an Indian maker of anvils.",
             "https://en.wikipedia.org/wiki/Acme_Ltd", "Acme Ltd"),
        NoPage, NoPage>>,
      <<NoPage,
        Page(TRUE, "Acme Ltd is an Indian conglomerate ... (1200 characters)",
             "https://en.wikipedia.org/wiki/Acme_company", "Acme company"),
        NoPage>>,
      <<Page(TRUE, "Acme may refer to:", "https://en.wikipedia.org/wiki/Acme",
             "Acme"),
        NoPage, NoPage>>,
      <<Page(TRUE, "", "https://en.wikipedia.org/wiki/Acme_(stub)", "Acme (stub)"),
        NoPage, NoPage>> }

\* A result of ddgs.news; has_body is FALSE when r["body"] is None.
NewsResult(ttl, body, url, date) ==
    [title |-> ttl, body |-> body, has_body |-> TRUE, url |-> url, date |-> date]

NoBodyNews(ttl, url, date) ==
    [title |-> ttl, body |-> "", has_body |-> FALSE, url |-> url, date |-> date]

\* r.get("body", "")[:200]; one body of the model is longer than 200 characters
Summary200(body) ==
    IF body = "Acme Ltd reported ... (350 characters)"
    THEN "Acme Ltd reported ... (first 200 characters)"
    ELSE body

\* lines 123-129: the loop; None[:200] raises, and what was appended before
\* stays in the list
RECURSIVE NewsLoop(_, _)
NewsLoop(news, results) ==
    IF results = <<>> THEN news
    ELSE LET r == Head(results)
         IN  IF ~r.has_body THEN news
             ELSE NewsLoop(Append(news, [title |-> r.title,
                                         summary |-> Summary200(r.body),
                                         url |-> r.url,
                                         date |-> r.date]),
                           Tail(results))

\* What one search call gives: it raises, or a list of results.
SearchRaised == [raises |-> TRUE, results |-> <<>>]

SearchReturned(results) == [raises |-> FALSE, results |-> results]

\* lines 117-132: _search_news
SearchNews(outcome) ==
    IF outcome.raises THEN <<>> ELSE NewsLoop(<<>>, outcome.results)

\* The answers of the news search in the model (max_results = 5).
NewsOutcomes ==
    { SearchRaised,
      SearchReturned(<<>>),
      SearchReturned(<<NewsResult("Acme wins order", "Acme Ltd won an order.",
                                  "https://news.example/acme-order", "2024-05-02")>>),
      SearchReturned(<<NewsResult("Acme results", "Acme Ltd reported ... (350 characters)",
                                  "https://news.example/acme-results", "2024-05-01"),
                       NoBodyNews("Acme video", "https://news.example/acme-video",
                                  "2024-04-30"),
                       NewsResult("Acme outlook", "Outlook is stable.",
                                  "https://news.example/acme-outlook", "2024-04-29")>>),
      SearchReturned(<<NewsResult("Acme wins order", "Acme Ltd won an order.",
                                  "https://news.example/acme-order", "2024-05-02"),
                       NewsResult("Acme results", "Results are out.", "", "2024-05-01"),
                       NewsResult("Acme outlook", "Outlook is stable.",
                                  "https://news.example/acme-outlook", "2024-04-29"),
                       NewsResult("Acme dividend", "Dividend declared.",
                                  "https://news.example/acme-dividend", "2024-04-28")>>) }

\* lines 134-143: _search_official_website (max_results = 1)
SearchOfficialWebsite(outcome) ==
    IF outcome.raises THEN None
    ELSE IF outcome.results # <<>>
    THEN [official_url |-> Head(outcome.results).href]
    ELSE None

\* The answers of the official-site search in the model.
WebsiteOutcomes ==
    { SearchRaised,
      SearchReturned(<<>>),
      SearchReturned(<<[href |-> "https://www.acme.example"]>>),
      SearchReturned(<<[href |-> ""]>>) }

(***************************************************************************)
(* collect_data (lines 41-96) and _assess_data_quality (lines 397-415).    *)
(***************************************************************************)

\* lines 50-58: the profile before any lookup; error is the list of the
\* messages recorded under the key "error" (no key: no message)
NewProfile ==
    [company_name |-> Company,
     company_info |-> EmptyDict,
     news |-> <<>>,
     stock_performance |-> EmptyDict,
     sources |-> <<>>,
     data_quality |-> "unknown",
     error |-> <<>>]

\* f"Wikipedia: {url}", f"News: {url}", f"Stock: {source}"
Citation(kind, ref) == [kind |-> kind, ref |-> ref]

\* lines 63-65
AddWikipedia(data, wiki_data) ==
    IF wiki_data # None
    THEN [data EXCEPT
            !.company_info = Update(@, wiki_data),
            !.sources = Append(@, Citation("Wikipedia", [text |-> wiki_data.url]))]
    ELSE data

\* lines 71-73: the citations of the first three articles that have a url
RECURSIVE NewsCitations(_, _)
NewsCitations(sources, articles) ==
    IF articles = <<>> THEN sources
    ELSE NewsCitations(
            IF Head(articles).url # ""
            THEN Append(sources, Citation("News", [text |-> Head(articles).url]))
            ELSE sources,
            Tail(articles))

\* news_data[:3]
First3(list) == SubSeq(list, 1, IF Len(list) < 3 THEN Len(list) ELSE 3)

\* lines 69-73
AddNews(data, news_data) ==
    IF news_data # <<>>
    THEN [data EXCEPT
            !.news = news_data,
            !.sources = NewsCitations(@, First3(news_data))]
    ELSE data

\* lines 77-78
AddWebsite(data, website_data) ==
    IF website_data # None
    THEN [data EXCEPT !.company_info = Update(@, website_data)]
    ELSE data

\* The record is stored without its citation.
AddStockNoCitation(data, stock_data) ==
    IF stock_data # None /\ DOMAIN stock_data # {}
    THEN [data EXCEPT !.stock_performance = stock_data]
    ELSE data

\* lines 82-84: a record that is None or an empty dict is not stored
AddStock(data, stock_data) ==
    IF stock_data # None /\ DOMAIN stock_data # {}
    THEN [data EXCEPT
            !.stock_performance = stock_data,
            !.sources = Append(@, Citation("Stock", stock_data.source))]
    ELSE data

\* +2 for a price that is a price: the placeholder of the aggregator gets 0.
PriceScoreWhenPriced(stock) ==
    IF "current_price" \in DOMAIN stock /\ stock.current_price.text = "rupees"
    THEN 2 ELSE 0

\* lines 404-405: data.get("stock_performance", {}).get("current_price") is
\* truthy for every non-empty string, "Data unavailable" included
PriceScore(stock) ==
    IF "current_price" \in DOMAIN stock /\ stock.current_price # [text |-> ""]
    THEN 2 ELSE 0

\* lines 399-407: the score
QualityScore(data) ==
      (IF GetOrEmpty(data.company_info, "description") # "" THEN 2 ELSE 0)
    + (IF Len(data.news) > 0 THEN 2 ELSE 0)
    + PriceScore(data.stock_performance)
    + (IF Len(data.sources) >= 3 THEN 1 ELSE 0)

\* lines 409-415: the tier of a score
QualityTier(score) ==
    IF score >= 5 THEN "high"
    ELSE IF score >= 3 THEN "medium"
    ELSE IF score >= 1 THEN "low"
    ELSE "insufficient"

\* lines 397-415: _assess_data_quality
AssessDataQuality(data) == QualityTier(QualityScore(data))

\* What the library answered and what the adapter returned in this request,
\* per lookup.
NotRun == [ran |-> FALSE]

Ran(outcome, returned) == [ran |-> TRUE, outcome |-> outcome, returned |-> returned]

NoLookups == [wiki |-> NotRun, news |-> NotRun, site |-> NotRun]

(***************************************************************************)
(* The workflow (src/graph/orchestrator.py) and the analyst                *)
(* (src/agents/analyst.py).                                                *)
(***************************************************************************)

\* orchestrator.py lines 205-211: error is the list of the messages stored
\* under "error" (None: no message)
InitialState ==
    [company_name |-> Company,
     raw_data |-> EmptyDict,
     analysis_results |-> EmptyDict,
     error |-> <<>>,
     validation_passed |-> FALSE]

\* orchestrator.py line 107: raw_data.get("data_quality", "unknown")
DataQualityOf(raw_data) ==
    IF "data_quality" \in DOMAIN raw_data THEN raw_data.data_quality ELSE "unknown"

\* bool(raw_data.get(key)) for a key that holds a dict or a list
HasAny(raw_data, key) == key \in DOMAIN raw_data /\ DOMAIN raw_data[key] # {}

\* The tier "insufficient" fails the validation as well.
ValidationPassedStrict(raw_data) ==
    /\ DataQualityOf(raw_data) \notin {"error", "insufficient"}
    /\ \/ HasAny(raw_data, "company_info")
       \/ HasAny(raw_data, "news")
       \/ HasAny(raw_data, "sources")

\* The tier "error" is not looked at.
ValidationPassedAnyData(raw_data) ==
    \/ HasAny(raw_data, "company_info")
    \/ HasAny(raw_data, "news")
    \/ HasAny(raw_data, "sources")

\* orchestrator.py lines 110-119
ValidationPassed(raw_data) ==
    /\ DataQualityOf(raw_data) # "error"
    /\ \/ HasAny(raw_data, "company_info")
       \/ HasAny(raw_data, "news")
       \/ HasAny(raw_data, "sources")

\* orchestrator.py lines 127-133: the result made when the validation fails
MinimalResponse(company_name, data_quality) ==
    [executive_summary |-> <<"Insufficient Data: No reliable information found for",
                             company_name>>,
     market_insights |-> <<"Data Not Available">>,
     risks_opportunities |-> <<"Data Not Available">>,
     data_sources |-> <<"- No sources found">>,
     data_quality |-> <<data_quality>>]

\* orchestrator.py lines 177-183: the result made when the analysis raises
AnalysisUnavailable ==
    [executive_summary |-> <<"Analysis unavailable due to error">>,
     market_insights |-> <<"Analysis unavailable">>,
     risks_opportunities |-> <<"Analysis unavailable">>,
     data_sources |-> <<"- Error occurred">>,
     data_quality |-> <<"error">>]

\* analyst.py lines 53-61
InsufficientDataResponse(company_name) ==
    [executive_summary |-> <<"Limited data available for", company_name>>,
     market_insights |-> <<"Insufficient data for detailed analysis">>,
     risks_opportunities |-> <<"Risks: Limited public information",
                               "Opportunities: Requires further research">>,
     data_sources |-> <<"Limited sources found">>,
     data_quality |-> <<"insufficient">>]

\* analyst.py lines 63-71
ErrorResponse(company_name) ==
    [executive_summary |-> <<"Error analyzing", company_name>>,
     market_insights |-> <<"Analysis unavailable">>,
     risks_opportunities |-> <<"Technical error occurred">>,
     data_sources |-> <<"Error">>,
     data_quality |-> <<"error">>]

\* analyst.py lines 38-39: the first five sources, or "No sources"
SourcesText(sources) ==
    IF sources # <<>>
    THEN SubSeq(sources, 1, IF Len(sources) < 5 THEN Len(sources) ELSE 5)
    ELSE <<"No sources">>

\* What the three generation steps of analyze give: their texts, or an
\* exception.
Generations == {"generated", "raised"}

\* analyst.py lines 18-51: analyze
Analyze(raw_data, generation) ==
    IF DataQualityOf(raw_data) \in {"insufficient", "error"}
    THEN InsufficientDataResponse(raw_data.company_name)
    ELSE IF generation = "raised"
    THEN ErrorResponse(raw_data.company_name)
    ELSE [executive_summary |-> <<"summary of", raw_data.company_name>>,
          market_insights |-> <<"insights on", raw_data.company_name>>,
          risks_opportunities |-> <<"risks and opportunities of",
                                    raw_data.company_name>>,
          data_sources |-> SourcesText(raw_data.sources),
          data_quality |-> <<DataQualityOf(raw_data)>>]

(***************************************************************************)
(* The request as a state machine.                                         *)
(***************************************************************************)

\* lines 156-157: the key is read and tested
CheckKey ==
    /\ pc = "start"
    /\ pc' = IF KeyConfigured(api_key) THEN "fetch" ELSE "scrape"
    /\ UNCHANGED <<api_key, indian_data, stock_info, queries, calls,
                   avg_price, result, snippet, title, before>>
    /\ UNCHANGED <<response, processed, outer>>

\* line 158: the authoritative fetch; an exception of the call would leave
\* the resolver
Fetch ==
    /\ pc = "fetch"
    /\ \E resp \in ApiResponses :
          /\ response' = resp
          /\ LET fetched == FetchIndianApi(resp)
             IN  IF fetched = Raised
                 THEN indian_data' = indian_data /\ pc' = "escaped"
                 ELSE indian_data' = fetched /\ pc' = "decide"
    /\ calls' = Append(calls, "fetch")
    /\ UNCHANGED <<api_key, stock_info, queries, avg_price, result,
                   snippet, title, before>>
    /\ UNCHANGED <<processed, outer>>

\* lines 159-165: return the record of the fetch, or fall back
Decide ==
    /\ pc = "decide"
    /\ IF Accepted(indian_data)
       THEN result' = indian_data /\ pc' = "done"
       ELSE result' = result /\ pc' = "scrape"
    /\ UNCHANGED <<api_key, indian_data, stock_info, queries, calls,
                   avg_price, snippet, title, before>>
    /\ UNCHANGED <<response, processed, outer>>

\* lines 260-276: one query and the processing of its results
Search ==
    /\ pc = "scrape"
    /\ queries < NumQueries
    /\ \E results \in SearchOutcomes :
          LET out == ProcessResults(stock_info, results)
              taken == Len(out.info.sources_checked)
                         - Len(stock_info.sources_checked)
          IN  /\ stock_info' = out.info
              /\ processed' = processed \o [i \in 1..taken |-> results[i].href]
              /\ pc' = IF out.raised \/ queries + 1 = NumQueries
                       THEN "aggregate" ELSE "scrape"
    /\ queries' = queries + 1
    /\ calls' = Append(calls, "search")
    /\ UNCHANGED <<api_key, indian_data, avg_price, result, snippet, title,
                   before>>
    /\ UNCHANGED <<response, outer>>

\* lines 261, 278-279: the query itself raises
SearchRaises ==
    /\ pc = "scrape"
    /\ queries < NumQueries
    /\ queries' = queries + 1
    /\ calls' = Append(calls, "search")
    /\ pc' = "aggregate"
    /\ UNCHANGED <<api_key, indian_data, stock_info, avg_price, result,
                   snippet, title, before>>
    /\ UNCHANGED <<response, processed, outer>>

\* line 282 and lines 330-384: the aggregation, whose result is returned
Aggregate ==
    /\ pc = "aggregate"
    /\ avg_price' = AvgPrice(stock_info.prices_found)
    /\ \E display \in PriceDisplays(avg_price') :
          result' = AggregateStockFindings(stock_info, display)
    /\ calls' = Append(calls, "aggregate")
    /\ pc' = "done"
    /\ UNCHANGED <<api_key, indian_data, stock_info, queries, snippet, title,
                   before>>
    /\ UNCHANGED <<response, processed, outer>>

Init ==
    /\ pc = "start"
    /\ api_key \in ApiKeys
    /\ indian_data = None
    /\ stock_info = EmptyInfo
    /\ queries = 0
    /\ calls = <<>>
    /\ avg_price = None
    /\ result = None
    /\ snippet = <<>>
    /\ title = <<>>
    /\ before = EmptyInfo
    /\ response = None
    /\ processed = <<>>
    /\ lookups = NoLookups
    /\ collected_data = NewProfile
    /\ state = InitialState

Next == CheckKey \/ Fetch \/ Decide \/ Search \/ SearchRaises \/ Aggregate

Spec == Init /\ [][Next]_vars

(***************************************************************************)
(* The aggregator on its own: _aggregate_stock_findings applied to every   *)
(* stock_info within the bounds.                                           *)
(***************************************************************************)

\* The lists over S of length at most n.
BSeq(S, n) == UNION {[1..k -> S] : k \in 0..n}

\* Candidates as the extractor stores them: 150 and 1,050.50 rupees.
PriceCands == {300, 2101}

AggInputs ==
    [prices_found : BSeq(PriceCands, MaxPrices),
     trends_found : BSeq({"bullish", "bearish"}, MaxTrendVotes),
     recommendations_found : BSeq({"BUY", "SELL", "HOLD"}, MaxRecVotes),
     sources_checked : BSeq(Hrefs, MaxSources)]

InitAgg ==
    /\ pc = "aggregate"
    /\ api_key = ""
    /\ indian_data = None
    /\ stock_info \in AggInputs
    /\ queries = 0
    /\ calls = <<>>
    /\ avg_price = None
    /\ result = None
    /\ snippet = <<>>
    /\ title = <<>>
    /\ before = EmptyInfo
    /\ response = None
    /\ processed = <<>>
    /\ lookups = NoLookups
    /\ collected_data = NewProfile
    /\ state = InitialState

NextAgg == Aggregate

SpecAgg == InitAgg /\ [][NextAgg]_vars

(***************************************************************************)
(* The extractors on their own: the body of the loop of lines 262-276, one *)
(* call at a time, on at most MaxSnippets results.                         *)
(***************************************************************************)

\* lines 262-267: the next result is taken and its source recorded
NextResult ==
    /\ pc = "next_result"
    /\ Len(stock_info.sources_checked) < MaxSnippets
    /\ \E r \in Results :
          /\ snippet' = LowerText(r.body)
          /\ title' = r.title
          /\ stock_info' = [stock_info EXCEPT
                               !.sources_checked = Append(@, Prefix50(r.href))]
          /\ processed' = Append(processed, r.href)
    /\ before' = stock_info'
    /\ pc' = "extract_price"
    /\ UNCHANGED <<api_key, indian_data, queries, calls, avg_price, result>>
    /\ UNCHANGED <<response, outer>>

\* line 270
ExtractPrice ==
    /\ pc = "extract_price"
    /\ stock_info' = ExtractPriceFromText(snippet, stock_info)
    /\ pc' = "extract_trend"
    /\ UNCHANGED <<api_key, indian_data, queries, calls, avg_price, result,
                   snippet, title, before>>
    /\ UNCHANGED <<response, processed, outer>>

\* line 273
ExtractTrend ==
    /\ pc = "extract_trend"
    /\ stock_info' = ExtractTrendFromText(snippet, title, stock_info)
    /\ pc' = "extract_recommendation"
    /\ UNCHANGED <<api_key, indian_data, queries, calls, avg_price, result,
                   snippet, title, before>>
    /\ UNCHANGED <<response, processed, outer>>

\* line 276
ExtractRecommendation ==
    /\ pc = "extract_recommendation"
    /\ stock_info' = ExtractRecommendationFromText(snippet, title, stock_info)
    /\ pc' = "next_result"
    /\ UNCHANGED <<api_key, indian_data, queries, calls, avg_price, result,
                   snippet, title, before>>
    /\ UNCHANGED <<response, processed, outer>>

InitExtract ==
    /\ pc = "next_result"
    /\ api_key = ""
    /\ indian_data = None
    /\ stock_info = EmptyInfo
    /\ queries = 0
    /\ calls = <<>>
    /\ avg_price = None
    /\ result = None
    /\ snippet = <<>>
    /\ title = <<>>
    /\ before = EmptyInfo
    /\ response = None
    /\ processed = <<>>
    /\ lookups = NoLookups
    /\ collected_data = NewProfile
    /\ state = InitialState

NextExtract == NextResult \/ ExtractPrice \/ ExtractTrend \/ ExtractRecommendation

SpecExtract == InitExtract /\ [][NextExtract]_vars

(***************************************************************************)
(* Properties.                                                             *)
(***************************************************************************)

Called(what) == \E i \in DOMAIN calls : calls[i] = what

TimesCalled(what) == Cardinality({i \in DOMAIN calls : calls[i] = what})

\* The aggregation has run and its result is the one returned.
Aggregated == pc = "done" /\ Called("aggregate") /\ result.data_type = "web_aggregated"

\* p1 + ... + pn
Total(list) ==
    LET partial[k \in 0..Len(list)] ==
            IF k = 0 THEN 0 ELSE partial[k - 1] + list[k]
    IN  partial[Len(list)]

Votes(list, v) == Cardinality({i \in DOMAIN list : list[i] = v})

\* The fetch returned a record whose price is present and no placeholder.
FetchedPrice == indian_data # None /\ indian_data.current_price.text = "rupees"

\* C1: whenever the authoritative fetch has returned a record whose price is
\* present and not a placeholder, no web-search query and no aggregation is
\* ever run for the request, and the signal returned is the fetched record,
\* with verified = true and live-API provenance.
C1_ShortCircuit ==
    FetchedPrice =>
        /\ ~Called("search")
        /\ ~Called("aggregate")
        /\ pc \in {"decide", "done"}
        /\ pc = "done" =>
              /\ result = indian_data
              /\ result.verified = TRUE
              /\ result.data_type = "live"

C1_Witness == pc = "done" /\ FetchedPrice /\ result.verified = TRUE

\* C2: each tier is attempted at most once per request (at most one fetch,
\* at most one aggregation), and the aggregation is run and its result
\* returned exactly when the authoritative result is absent or rejected.
C2_TwoTierOnce ==
    /\ TimesCalled("fetch") <= 1
    /\ TimesCalled("aggregate") <= 1
    /\ pc = "done" => (Aggregated <=> ~FetchedPrice)

C2_Witness == Aggregated /\ Called("fetch") /\ indian_data = None

\* C3 as stated: every request attempts the authoritative fetch, and before
\* any web-search query or aggregation.
C3_AlwaysFetchFirst ==
    /\ calls # <<>> => calls[1] = "fetch"
    /\ pc = "done" => Called("fetch")

\* C3 amended: a request made with a key configured (non-empty and not the
\* placeholder "your_indian_api_key_here") attempts the authoritative fetch,
\* and before any web-search query or aggregation; a request made without a
\* configured key attempts no fetch.
C3_FetchFirstWhenKeyed ==
    IF api_key \notin {"", "your_indian_api_key_here"}
    THEN /\ calls # <<>> => calls[1] = "fetch"
         /\ pc \in {"decide", "scrape", "aggregate", "done"} => Called("fetch")
    ELSE ~Called("fetch")

C3_Witness ==
    /\ pc = "done"
    /\ api_key = "live-key"
    /\ calls[1] = "fetch"
    /\ Called("search")
    /\ Called("aggregate")

\* C4: when the aggregation has run over price candidates p1..pn, n >= 1,
\* the aggregated price is their arithmetic mean, every candidate counted
\* (avg_price = (p1 + ... + pn) / n, and the price returned is that mean
\* rendered to the nearest paisa); with no candidate the aggregated price is
\* absent (avg_price is None and the price returned is "Data unavailable").
C4_PriceIsMean ==
    Aggregated =>
        LET prices == stock_info.prices_found
            n == Len(prices)
        IN  IF n >= 1
            THEN /\ avg_price # None
                 /\ avg_price.num * n = Total(prices) * avg_price.den
                 /\ result.current_price.text = "rupees"
                 /\ 2 * Abs(result.current_price.paise * n - 50 * Total(prices)) <= n
            ELSE /\ avg_price = None
                 /\ result.current_price = Unavailable

C4_Witness ==
    /\ Aggregated
    /\ stock_info.prices_found = <<300, 2101, 300>>
    /\ result.current_price = Rupees(45017)

\* C5: the aggregated trend is bullish iff there are more bullish than
\* bearish votes, bearish iff there are more bearish than bullish votes, and
\* neutral on every tie, the tie of no votes included.
C5_TrendMajority ==
    Aggregated =>
        LET bullish_count == Votes(stock_info.trends_found, "bullish")
            bearish_count == Votes(stock_info.trends_found, "bearish")
        IN  /\ result.trend = "bullish" <=> bullish_count > bearish_count
            /\ result.trend = "bearish" <=> bearish_count > bullish_count
            /\ result.trend = "neutral" <=> bullish_count = bearish_count

C5_Witness ==
    /\ Aggregated
    /\ Votes(stock_info.trends_found, "bullish") = 1
    /\ Votes(stock_info.trends_found, "bearish") = 1
    /\ result.trend = "neutral"

\* C6: over a non-empty list of recommendation votes the aggregated
\* recommendation is BUY if buy_count >= sell_count and buy_count >=
\* hold_count, else SELL if sell_count > buy_count and sell_count >=
\* hold_count, else HOLD; BUY wins every tie it is part of.
C6_RecommendationVote ==
    (Aggregated /\ stock_info.recommendations_found # <<>>) =>
        LET buy_count == Votes(stock_info.recommendations_found, "BUY")
            sell_count == Votes(stock_info.recommendations_found, "SELL")
            hold_count == Votes(stock_info.recommendations_found, "HOLD")
        IN  result.recommendation =
                IF buy_count >= sell_count /\ buy_count >= hold_count THEN "BUY"
                ELSE IF sell_count > buy_count /\ sell_count >= hold_count THEN "SELL"
                ELSE "HOLD"

C6_Witness ==
    /\ Aggregated
    /\ Votes(stock_info.recommendations_found, "BUY") = 1
    /\ Votes(stock_info.recommendations_found, "SELL") = 1
    /\ Votes(stock_info.recommendations_found, "HOLD") = 1
    /\ result.recommendation = "BUY"

\* C7 as stated: over a non-empty list of recommendation votes the
\* confidence is "Strong" if the winning recommendation, whichever of BUY,
\* SELL and HOLD it is, has more than 2 votes, and "Moderate" otherwise.
C7_StrongWhenWinnerOverTwo ==
    (Aggregated /\ stock_info.recommendations_found # <<>>) =>
        result.confidence =
            IF Votes(stock_info.recommendations_found, result.recommendation) > 2
            THEN "Strong" ELSE "Moderate"

\* C7 amended: over a non-empty list of recommendation votes the confidence
\* is "Strong" if the winning recommendation is BUY or SELL and has more than
\* 2 votes, and "Moderate" otherwise; a winning HOLD is "Moderate" whatever
\* its vote count.
C7_StrongOnlyForBuySell ==
    (Aggregated /\ stock_info.recommendations_found # <<>>) =>
        result.confidence =
            IF /\ result.recommendation \in {"BUY", "SELL"}
               /\ Votes(stock_info.recommendations_found, result.recommendation) > 2
            THEN "Strong" ELSE "Moderate"

C7_Witness ==
    /\ Aggregated
    /\ stock_info.recommendations_found = <<"HOLD", "HOLD", "HOLD">>
    /\ result.recommendation = "HOLD"
    /\ result.confidence = "Moderate"

\* C8: an aggregation run with no evidence at all (no price, no trend vote,
\* no recommendation vote) returns a result: recommendation HOLD, trend
\* neutral, confidence "Low (limited data)" and an absent price.
C8_NoEvidenceDefaults ==
    /\ (Aggregated /\ stock_info.prices_found = <<>>
                   /\ stock_info.trends_found = <<>>
                   /\ stock_info.recommendations_found = <<>>) =>
          /\ result.recommendation = "HOLD"
          /\ result.trend = "neutral"
          /\ result.confidence = "Low (limited data)"
          /\ result.current_price = Unavailable
          /\ avg_price = None
    /\ pc = "aggregate" => ENABLED Aggregate

C8_Witness ==
    /\ Aggregated
    /\ Called("search")
    /\ stock_info.prices_found = <<>>
    /\ stock_info.trends_found = <<>>
    /\ stock_info.recommendations_found = <<>>
    /\ result.recommendation = "HOLD"

\* The text the trend and recommendation extractors search (lines 305, 321).
SearchedText == LowerText(snippet \o title)

C10_OneVotePerSnippet ==
    (pc = "next_result" /\ stock_info.sources_checked # <<>>) =>
        /\ stock_info.recommendations_found =
              before.recommendations_found \o
                 (IF ContainsAny(buy_words, SearchedText) THEN <<"BUY">>
                  ELSE IF ContainsAny(sell_words, SearchedText) THEN <<"SELL">>
                  ELSE IF ContainsAny(hold_words, SearchedText) THEN <<"HOLD">>
                  ELSE <<>>)
        /\ Len(stock_info.recommendations_found) <= Len(stock_info.sources_checked)

C10_Witness ==
    /\ pc = "next_result"
    /\ snippet = <<"avoid", "strong buy">>
    /\ title = <<>>
    /\ stock_info.recommendations_found = Append(before.recommendations_found, "BUY")
    /\ Len(stock_info.sources_checked) = 2

\* The value a token mentions under one of the patterns of lines 289-291, in
\* half rupees; -1 when it mentions none or the group is no number.
Mentioned(tok) ==
    IF PriceMention(tok).pattern = 0 THEN -1 ELSE ParsePrice(PriceMention(tok).group)

\* C11: the stored candidates are exactly the currency-marked values v (the
\* values matched by one of the three patterns) with 10 < v < 500000 rupees
\* found in the processed snippets, every match of a snippet and not only
\* its first; no value outside the open range is ever stored, so neither 5
\* nor 999999999 (nor the bounds 10 and 500000 themselves) is.
C11_CandidatesInRange ==
    /\ \A i \in DOMAIN stock_info.prices_found :
          /\ 2 * 10 < stock_info.prices_found[i]
          /\ stock_info.prices_found[i] < 2 * 500000
          /\ stock_info.prices_found[i] \notin {2 * 5, 2 * 999999999}
    /\ pc = "extract_trend" =>
          LET found == {i \in DOMAIN snippet :
                           /\ 2 * 10 < Mentioned(snippet[i])
                           /\ Mentioned(snippet[i]) < 2 * 500000}
          IN  /\ Len(stock_info.prices_found) =
                    Len(before.prices_found) + Cardinality(found)
              /\ \A i \in found :
                    Votes(stock_info.prices_found, Mentioned(snippet[i])) =
                        Votes(before.prices_found, Mentioned(snippet[i]))
                        + Cardinality({j \in found :
                                          Mentioned(snippet[j]) = Mentioned(snippet[i])})

C11_Witness ==
    /\ pc = "extract_trend"
    /\ snippet = <<"(rupee)1,050.50", "rs 500,000", "(rupee)150">>
    /\ before.prices_found = <<500, 300>>
    /\ stock_info.prices_found = <<500, 300, 2101, 300>>

(***************************************************************************)
(* The authoritative adapter on its own: _fetch_indian_api applied to      *)
(* every response of FetchInputs.                                          *)
(***************************************************************************)

\* Percent changes in 1/100 percent, the thresholds and their neighbours.
PctValues == {-310, -201, -200, -199, -1, 0, 1, 199, 200, 201, 310}

PctForms ==
    {PctMissing}
    \cup {PctScalar(v) : v \in PctValues}
    \cup {PctByExchange(n, b) : n \in {Missing, Field(0), Field(-200)},
                                b \in {Missing, Field(201)}}

\* The well-formed objects: each price field missing, 0, or a price of its own.
QuoteObjects ==
    { Response(FALSE, 200, "object", FALSE, n, b, p, l, pct) :
        n \in {Missing, Field(0), Field(2469)},
        b \in {Missing, Field(0), Field(2468)},
        p \in {Missing, Field(0), Field(901)},
        l \in {Missing, Field(0), Field(154)},
        pct \in PctForms }

FetchInputs == ApiResponses \cup QuoteObjects

\* lines 167-235: one call of _fetch_indian_api
FetchQuote ==
    /\ pc = "fetch_input"
    /\ indian_data' = FetchIndianApi(response)
    /\ pc' = "fetched"
    /\ UNCHANGED <<api_key, stock_info, queries, calls, avg_price, result,
                   snippet, title, before>>
    /\ UNCHANGED <<response, processed, outer>>

InitFetch ==
    /\ pc = "fetch_input"
    /\ api_key = "live-key"
    /\ indian_data = None
    /\ stock_info = EmptyInfo
    /\ queries = 0
    /\ calls = <<>>
    /\ avg_price = None
    /\ result = None
    /\ snippet = <<>>
    /\ title = <<>>
    /\ before = EmptyInfo
    /\ response \in FetchInputs
    /\ processed = <<>>
    /\ lookups = NoLookups
    /\ collected_data = NewProfile
    /\ state = InitialState

NextFetch == FetchQuote

SpecFetch == InitFetch /\ [][NextFetch]_vars

\* The fetch has returned a quote for the response.
Quoted == pc = "fetched" /\ indian_data # None

\* C12: for every percent change p of an authoritative quote (the number the
\* response gives, which is the one the quote displays), the recommendation
\* is STRONG BUY if p > 2, BUY if 0 < p <= 2, HOLD if -2 < p <= 0 and SELL if
\* p <= -2.
C12_RecommendationThresholds ==
    Quoted =>
        LET p == indian_data.price_change_pct.pct
            rec == indian_data.recommendation
        IN  /\ response.pct.kind = "scalar" => p = response.pct.value
            /\ p > 200 => rec = "STRONG BUY"
            /\ (0 < p /\ p <= 200) => rec = "BUY"
            /\ (-200 < p /\ p <= 0) => rec = "HOLD"
            /\ p <= -200 => rec = "SELL"

\* A quote whose percent change is exactly -2.
C12_Witness ==
    /\ Quoted
    /\ response.pct = PctScalar(-200)
    /\ indian_data.recommendation = "SELL"

\* The object of a response that passed the checks of lines 177-186.
WellFormed == ~response.raises /\ response.status = 200
              /\ response.json = "object" /\ ~response.error

\* The price fields of the response in the order of resolution.
PriceFields == <<response.NSE, response.BSE, response.price, response.lastPrice>>

\* The first field of the list that satisfies Usable; Missing when none does.
FirstField(Usable(_)) ==
    IF \E i \in 1..4 : Usable(PriceFields[i])
    THEN PriceFields[CHOOSE i \in 1..4 :
                        /\ Usable(PriceFields[i])
                        /\ \A j \in 1..(i - 1) : ~Usable(PriceFields[j])]
    ELSE Missing

IsPresent(field) == field.present

IsNonZero(field) == field.present /\ field.value # 0

\* C13 as stated: the price is that of the first present field in the order
\* currentPrice.NSE, currentPrice.BSE, price, lastPrice, and the adapter
\* returns absent exactly when none of these fields is present.
C13_FirstPresentField ==
    (pc = "fetched" /\ WellFormed) =>
        IF FirstField(IsPresent).present
        THEN /\ indian_data # None
             /\ indian_data.current_price = Rupees(50 * FirstField(IsPresent).value)
        ELSE indian_data = None

\* C13 amended: the price is that of the first field, in the order
\* currentPrice.NSE, currentPrice.BSE, price, lastPrice, that is present with
\* a value other than 0, and the adapter returns absent exactly when no field
\* is present with a value other than 0.
C13_FirstNonZeroField ==
    (pc = "fetched" /\ WellFormed) =>
        IF FirstField(IsNonZero).present
        THEN /\ indian_data # None
             /\ indian_data.current_price = Rupees(50 * FirstField(IsNonZero).value)
        ELSE indian_data = None

\* NSE is present with 0 and the price of BSE is taken.
C13_Witness ==
    /\ pc = "fetched"
    /\ WellFormed
    /\ response.NSE = Field(0)
    /\ response.BSE = Field(2468)
    /\ indian_data # None
    /\ indian_data.current_price = Rupees(50 * 2468)

(***************************************************************************)
(* collect_data as a state machine: the three lookups, the stock lookup    *)
(* (the request above, from "start" to "done"), the scoring, and the three *)
(* nodes of the workflow.                                                  *)
(***************************************************************************)

\* lines 62-65
Wikipedia ==
    /\ pc = "wiki"
    /\ \E pages \in WikiOutcomes :
          LET wiki_data == SearchWikipedia(pages)
          IN  /\ lookups' = [lookups EXCEPT !.wiki = Ran(pages, wiki_data)]
              /\ collected_data' = AddWikipedia(collected_data, wiki_data)
    /\ pc' = "news"
    /\ UNCHANGED <<api_key, indian_data, stock_info, queries, calls, avg_price,
                   result, snippet, title, before, response, processed, state>>

\* lines 68-73
News ==
    /\ pc = "news"
    /\ \E outcome \in NewsOutcomes :
          LET news_data == SearchNews(outcome)
          IN  /\ lookups' = [lookups EXCEPT !.news = Ran(outcome, news_data)]
              /\ collected_data' = AddNews(collected_data, news_data)
    /\ pc' = "website"
    /\ UNCHANGED <<api_key, indian_data, stock_info, queries, calls, avg_price,
                   result, snippet, title, before, response, processed, state>>

\* lines 76-78
OfficialWebsite ==
    /\ pc = "website"
    /\ \E outcome \in WebsiteOutcomes :
          LET website_data == SearchOfficialWebsite(outcome)
          IN  /\ lookups' = [lookups EXCEPT !.site = Ran(outcome, website_data)]
              /\ collected_data' = AddWebsite(collected_data, website_data)
    /\ pc' = "start"
    /\ UNCHANGED <<api_key, indian_data, stock_info, queries, calls, avg_price,
                   result, snippet, title, before, response, processed, state>>

\* lines 81-84: the record of the resolver goes into the profile
StockPerformance ==
    /\ pc = "done"
    /\ collected_data' = AddStock(collected_data, result)
    /\ pc' = "assess"
    /\ UNCHANGED <<api_key, indian_data, stock_info, queries, calls, avg_price,
                   result, snippet, title, before, response, processed,
                   lookups, state>>

\* line 87
AssessQuality ==
    /\ pc = "assess"
    /\ collected_data' = [collected_data EXCEPT
                             !.data_quality = AssessDataQuality(collected_data)]
    /\ pc' = "collected"
    /\ UNCHANGED <<api_key, indian_data, stock_info, queries, calls, avg_price,
                   result, snippet, title, before, response, processed,
                   lookups, state>>

\* The statements of the try block of collect_data that run outside the
\* handlers of the adapters, where an exception (a name that is not a string
\* at line 150, exhausted memory) goes to the except clause of line 91.
UnexpectedAt == {"wiki", "news", "website", "start", "done", "assess"}

\* lines 91-94: an exception reached the except clause
CollectionError ==
    /\ pc \in UnexpectedAt \cup {"escaped"}
    /\ collected_data' = [collected_data EXCEPT
                             !.data_quality = "error",
                             !.error = <<"exception">>]
    /\ pc' = "collected"
    /\ UNCHANGED <<api_key, indian_data, stock_info, queries, calls, avg_price,
                   result, snippet, title, before, response, processed,
                   lookups, state>>

\* orchestrator.py lines 67-91 and the edge of line 52: the call of the
\* collector has ended, by a return or, for a collector that lets an
\* exception out, in the except clause of the node
CollectDataNode ==
    /\ pc = "collected"
    /\ IF collected_data = Raised
       THEN state' = [state EXCEPT
                         !.error = <<"Data collection error">>,
                         !.raw_data = [data_quality |-> "error"],
                         !.validation_passed = FALSE]
       ELSE state' = [state EXCEPT !.raw_data = collected_data]
    /\ calls' = Append(calls, "collect_data")
    /\ pc' = "validate"
    /\ UNCHANGED <<api_key, indian_data, stock_info, queries, avg_price,
                   result, snippet, title, before, response, processed,
                   lookups, collected_data>>

\* The conditional edge always taken to analyze_data.
ShouldAnalyzeAlways(st) == TRUE

\* orchestrator.py lines 142-152
ShouldAnalyze(st) == st.validation_passed

\* orchestrator.py lines 93-140 and the conditional edge of lines 54-61;
\* raw_data.get raises at line 107 when raw_data is None, and the except
\* clause of lines 135-138 leaves analysis_results as it was
ValidateDataNode ==
    /\ pc = "validate"
    /\ IF state.raw_data = None
       THEN state' = [state EXCEPT
                         !.error = <<"Validation error">>,
                         !.validation_passed = FALSE]
       ELSE LET passed == ValidationPassed(state.raw_data)
            IN  state' = [state EXCEPT
                             !.validation_passed = passed,
                             !.analysis_results =
                                 IF passed THEN @
                                 ELSE MinimalResponse(state.company_name,
                                                      DataQualityOf(state.raw_data))]
    /\ calls' = Append(calls, "validate_data")
    /\ pc' = IF ShouldAnalyze(state') THEN "analyze" ELSE "end"
    /\ UNCHANGED <<api_key, indian_data, stock_info, queries, avg_price,
                   result, snippet, title, before, response, processed,
                   lookups, collected_data>>

\* orchestrator.py lines 154-186 and the edge to END of line 63
AnalyzeDataNode ==
    /\ pc = "analyze"
    /\ IF DOMAIN state.raw_data = {}
       THEN /\ state' = [state EXCEPT
                            !.error = <<"Analysis error">>,
                            !.analysis_results = AnalysisUnavailable]
            /\ calls' = Append(calls, "analyze_data")
       ELSE /\ \E generation \in Generations :
                  state' = [state EXCEPT
                               !.analysis_results =
                                   Analyze(state.raw_data, generation)]
            /\ calls' = calls \o <<"analyze_data", "analyze">>
    /\ pc' = "end"
    /\ UNCHANGED <<api_key, indian_data, stock_info, queries, avg_price,
                   result, snippet, title, before, response, processed,
                   lookups, collected_data>>

InitRun ==
    /\ pc = "wiki"
    /\ api_key \in ApiKeys
    /\ indian_data = None
    /\ stock_info = EmptyInfo
    /\ queries = 0
    /\ calls = <<>>
    /\ avg_price = None
    /\ result = None
    /\ snippet = <<>>
    /\ title = <<>>
    /\ before = EmptyInfo
    /\ response = None
    /\ processed = <<>>
    /\ lookups = NoLookups
    /\ collected_data = NewProfile
    /\ state = InitialState

NextRun ==
    \/ Wikipedia \/ News \/ OfficialWebsite
    \/ CheckKey \/ Fetch \/ Decide \/ Search \/ SearchRaises \/ Aggregate
    \/ StockPerformance \/ AssessQuality \/ CollectionError
    \/ CollectDataNode \/ ValidateDataNode \/ AnalyzeDataNode

SpecRun == InitRun /\ [][NextRun]_vars

(***************************************************************************)
(* Properties of collect_data.                                             *)
(***************************************************************************)

\* collect_data has returned without entering its except clause.
Collected == pc = "collected" /\ collected_data.error = <<>>

\* A page lookup raised before a page was found.
WikiFailed(pages) ==
    \E i \in DOMAIN pages :
        pages[i].raises /\ \A j \in 1..(i - 1) : ~pages[j].exists

\* The results of a news search that precede the first one without a body.
WellShaped(results) ==
    {i \in DOMAIN results : \A j \in 1..i : results[j].has_body}

\* The response of the fetch is one of the failures of lines 175-186.
FetchFailed ==
    \/ response.raises
    \/ response.status # 200
    \/ response.json = "malformed"
    \/ response.error

CitationsOf(kind) == SelectSeq(collected_data.sources, LAMBDA c : c.kind = kind)

\* What the encyclopedia lookup put into the profile, given what it returned.
WikiContribution(returned) ==
    IF returned = None
    THEN /\ {"description", "url", "title"} \cap DOMAIN collected_data.company_info = {}
         /\ CitationsOf("Wikipedia") = <<>>
    ELSE /\ {"description", "url", "title"} \subseteq DOMAIN collected_data.company_info
         /\ collected_data.company_info["description"] = returned.description
         /\ collected_data.company_info["url"] = returned.url
         /\ collected_data.company_info["title"] = returned.title
         /\ CitationsOf("Wikipedia") = <<Citation("Wikipedia", [text |-> returned.url])>>

\* What the news lookup put into the profile, given what it returned.
NewsContribution(returned) ==
    /\ collected_data.news = returned
    /\ Len(CitationsOf("News"))
          = Cardinality({i \in DOMAIN returned : i <= 3 /\ returned[i].url # ""})
    /\ \A i \in DOMAIN CitationsOf("News") :
          \E j \in DOMAIN returned :
              j <= 3 /\ CitationsOf("News")[i].ref.text = returned[j].url

\* What the official-site lookup put into the profile, given what it returned.
WebsiteContribution(returned) ==
    IF returned = None
    THEN "official_url" \notin DOMAIN collected_data.company_info
    ELSE /\ "official_url" \in DOMAIN collected_data.company_info
         /\ collected_data.company_info["official_url"] = returned.official_url

\* What the stock lookup put into the profile.
StockContribution ==
    /\ collected_data.stock_performance = result
    /\ CitationsOf("Stock") = <<Citation("Stock", result.source)>>

MaxCitations == 3

NewsItem(url) ==
    [title |-> "Acme wins order", summary |-> "Acme Ltd won an order.",
     url |-> url, date |-> "2024-05-02"]

Profiles ==
    { [NewProfile EXCEPT !.company_info = info, !.news = news,
                         !.stock_performance = stock, !.sources = sources] :
        info \in { EmptyDict,
                   [official_url |-> ""],
                   [description |-> "Acme Ltd is an Indian maker of anvils.",
                    url |-> "https://en.wikipedia.org/wiki/Acme_Ltd",
                    title |-> "Acme Ltd"],
                   [description |-> "",
                    url |-> "https://en.wikipedia.org/wiki/Acme_(stub)",
                    title |-> "Acme (stub)",
                    official_url |-> "https://www.acme.example"] },
        news \in { <<>>,
                   <<NewsItem("https://news.example/acme-order")>>,
                   <<NewsItem("https://news.example/acme-order"), NewsItem("")>> },
        stock \in { EmptyDict,
                    AggregateStockFindings(EmptyInfo, Unavailable),
                    AggregateStockFindings(
                        [EmptyInfo EXCEPT !.prices_found = <<300>>,
                                          !.sources_checked = <<"https://nse.example/acme">>],
                        Rupees(15000)),
                    QuoteRecord(2469, 310) },
        sources \in { [i \in 1..k |->
                          Citation("News", [text |-> "https://news.example/acme-order"])] :
                      k \in 0..MaxCitations } }

\* What a collector that is not the one above may end with: an exception,
\* or None in place of a profile.
CollectorFailures == {Raised, None}

InitFlow ==
    /\ api_key = ""
    /\ indian_data = None
    /\ stock_info = EmptyInfo
    /\ queries = 0
    /\ calls = <<>>
    /\ avg_price = None
    /\ result = None
    /\ snippet = <<>>
    /\ title = <<>>
    /\ before = EmptyInfo
    /\ response = None
    /\ processed = <<>>
    /\ lookups = NoLookups
    /\ \/ pc = "assess" /\ collected_data \in Profiles
       \/ pc = "collected" /\ collected_data \in CollectorFailures
    /\ state = InitialState

NextFlow ==
    \/ AssessQuality \/ CollectionError
    \/ CollectDataNode \/ ValidateDataNode \/ AnalyzeDataNode

SpecFlow == InitFlow /\ [][NextFlow]_vars

\* C16: every signal the resolver returns has verified = true if and only if
\* it is the record of the authoritative fetch, and then its data_type is
\* "live" and its sources_analyzed is 1; every signal of the aggregator has
\* verified = false and data_type "web_aggregated".
C16_VerifiedIffLive ==
    pc = "done" =>
        /\ result.verified <=>
              (Called("fetch") /\ ~Called("aggregate") /\ result = indian_data)
        /\ result.verified =>
              (result.data_type = "live" /\ result.sources_analyzed = 1)
        /\ Called("aggregate") =>
              (~result.verified /\ result.data_type = "web_aggregated")

\* The fetch gave the signal, which is verified and live.
C16_Witness ==
    /\ pc = "done"
    /\ ~Called("aggregate")
    /\ result = indian_data
    /\ result.verified
    /\ result.data_type = "live"
    /\ result.sources_analyzed = 1

\* The source identifiers of the results processed in the request, a result
\* without one (an empty href) giving none.
SourceIds == {processed[i] : i \in DOMAIN processed} \ {""}

\* C17: for a web-aggregated signal, sources_analyzed is the number of
\* distinct source identifiers among the results processed in the request,
\* and 1 when there is none.
C17_DistinctSources ==
    Aggregated => result.sources_analyzed = Max(Cardinality(SourceIds), 1)

\* The sum of the claim, the price counting when a price is present.
ClaimedScore(data) ==
      (IF GetOrEmpty(data.company_info, "description") # "" THEN 2 ELSE 0)
    + (IF Len(data.news) >= 1 THEN 2 ELSE 0)
    + PriceScoreWhenPriced(data.stock_performance)
    + (IF Len(data.sources) >= 3 THEN 1 ELSE 0)

\* The tier of a sum, as the claim maps it.
ClaimedTier(sum) ==
    CASE sum >= 5 -> "high"
      [] sum >= 3 /\ sum < 5 -> "medium"
      [] sum >= 1 /\ sum < 3 -> "low"
      [] sum = 0 -> "insufficient"

\* The profile has been scored.
Scored == pc \in {"collected", "validate", "analyze", "end"}
          /\ collected_data \notin CollectorFailures
          /\ collected_data.error = <<>>

\* C18: the tier of a profile is that of the sum of +2 for a description, +2
\* for at least one news item, +2 for a current price and +1 for at least 3
\* citations, with sum >= 5 high, sum >= 3 medium, sum >= 1 low and sum = 0
\* insufficient.
C18_TierOfSum ==
    Scored => collected_data.data_quality = ClaimedTier(ClaimedScore(collected_data))

\* The sum of the profile without the contribution of the price.
ScoreWithoutPrice(data) ==
      (IF GetOrEmpty(data.company_info, "description") # "" THEN 2 ELSE 0)
    + (IF Len(data.news) >= 1 THEN 2 ELSE 0)
    + (IF Len(data.sources) >= 3 THEN 1 ELSE 0)

\* C19: a profile whose signal was aggregated from no price candidate (its
\* price displayed as unavailable) gets 0 for the price: its tier is that of
\* the sum of the other contributions.
C19_NoPriceNoPoints ==
    (Collected /\ Called("aggregate")
        /\ collected_data.stock_performance.current_price = Unavailable)
    => collected_data.data_quality
          = QualityTier(ScoreWithoutPrice(collected_data))

\* The five fields of a result are all there and none is empty.
FiveNonEmpty(analysis_results) ==
    /\ DOMAIN analysis_results
          = {"executive_summary", "market_insights", "risks_opportunities",
             "data_sources", "data_quality"}
    /\ \A f \in DOMAIN analysis_results :
          /\ analysis_results[f] # <<>>
          /\ \A i \in DOMAIN analysis_results[f] : analysis_results[f][i] # ""

\* The run of the workflow is over.
Ended == pc = "end"

\* The result is the placeholder of the validation, analyze not having run.
Skipped ==
    /\ ~Called("analyze")
    /\ state.analysis_results
          = MinimalResponse(Company, DataQualityOf(state.raw_data))
    /\ FiveNonEmpty(state.analysis_results)

\* The profile holds no company information, no news and no citation.
EmptyHanded ==
    /\ {"company_info", "news", "sources"} \subseteq DOMAIN state.raw_data
    /\ DOMAIN state.raw_data.company_info = {}
    /\ state.raw_data.news = <<>>
    /\ state.raw_data.sources = <<>>

CollectReturned == pc \in {"collected", "validate", "analyze", "end"}

\* The collection sequence was cut short: a lookup did not run, or the
\* stock record or the score is not in the profile.
CutShort ==
    \/ ~lookups.wiki.ran \/ ~lookups.news.ran \/ ~lookups.site.ran
    \/ DOMAIN collected_data.stock_performance = {}
    \/ collected_data.data_quality \notin {"low", "medium", "high", "insufficient"}

\* C21: an exception anywhere in the collection sequence stays inside
\* collect_data: whenever collect_data has returned with its sequence cut
\* short, the profile it returned has data_quality "error" and the error
\* recorded, the except clause of the node was not entered, and the
\* workflow does not invoke analyze for it and ends with the placeholder.
C21_ErrorProfileSkipsAnalysis ==
    (CollectReturned /\ CutShort) =>
        /\ collected_data.data_quality = "error"
        /\ collected_data.error # <<>>
        /\ state.error = <<>>
        /\ pc # "collected" => state.raw_data = collected_data
        /\ pc # "analyze" /\ ~Called("analyze_data") /\ ~Called("analyze")
        /\ Ended =>
              /\ ~state.validation_passed
              /\ state.analysis_results = MinimalResponse(Company, "error")

\* The sequence was cut after the news lookup, which had found news; the
\* run ended with the placeholder.
C21_Witness ==
    /\ Ended
    /\ lookups.news.ran /\ ~lookups.site.ran
    /\ collected_data.news # <<>>
    /\ collected_data.data_quality = "error"
    /\ collected_data.error # <<>>
    /\ state.analysis_results = MinimalResponse(Company, "error")
    /\ ~Called("analyze")

\* "can refer to" in text.lower() or "may refer to" in text.lower(), on the
\* summaries of the model
HasDisambiguationMarker(text) == text \in {"Acme may refer to:"}

\* C22: the description of the profile never holds an encyclopedia summary
\* with a disambiguation marker ("can refer to", "may refer to"): such a
\* summary is discarded by the lookup.
C22_NoDisambiguationDescription ==
    lookups.wiki.ran =>
        ~HasDisambiguationMarker(
            GetOrEmpty(collected_data.company_info, "description"))

\* The five fields of a result.
ResultFields ==
    {"executive_summary", "market_insights", "risks_opportunities",
     "data_sources", "data_quality"}

NodeOrder == <<"collect_data", "validate_data", "analyze_data">>

\* The nodes that have run, in the order in which they ran.
NodesRun == SelectSeq(calls, LAMBDA c : c \in {NodeOrder[i] : i \in 1..3})

\* C24: the nodes run in the order collect_data, validate_data and then,
\* optionally, analyze_data, none of them twice; analyze_data runs only
\* after validate_data has finished and only if validate_data set
\* validation_passed to true, and a run ends after validate_data exactly when
\* it did not.
C24_NodeOrder ==
    /\ \E k \in 0..3 : NodesRun = SubSeq(NodeOrder, 1, k)
    /\ (pc = "analyze" \/ Called("analyze_data")) =>
          (Called("validate_data") /\ state.validation_passed)
    /\ Called("analyze") => Called("analyze_data")
    /\ pc = "analyze" => ~Called("analyze_data")
    /\ Ended =>
          /\ Called("validate_data")
          /\ Called("analyze_data") <=> state.validation_passed

\* A run through the three nodes.
C24_Witness ==
    /\ Ended
    /\ NodesRun = NodeOrder
    /\ state.validation_passed

\* The kinds of the citations of the profile, in the order of the list.
CitationKinds == [i \in DOMAIN collected_data.sources |-> collected_data.sources[i].kind]

\* C25: in every request that collect_data completes without entering its
\* except clause, the stock record is not empty, the sources are the
\* citation of the encyclopedia if there is one, then at most three news
\* citations, then exactly one "Stock:" citation, and data_quality is low,
\* medium or high; no profile collect_data returns has the tier insufficient
\* or unknown.
C25_StockAlwaysCited ==
    /\ Collected =>
          /\ DOMAIN collected_data.stock_performance # {}
          /\ collected_data.stock_performance.data_type \in {"live", "web_aggregated"}
          /\ \E w \in 0..1, n \in 0..3 :
                CitationKinds = [i \in 1..w |-> "Wikipedia"]
                                \o [i \in 1..n |-> "News"]
                                \o <<"Stock">>
          /\ collected_data.data_quality \in {"low", "medium", "high"}
    /\ CollectReturned =>
          collected_data.data_quality \notin {"insufficient", "unknown"}

\* No lookup found anything: the profile holds the stock citation alone and
\* is of tier low.
C25_Witness ==
    /\ Collected
    /\ DOMAIN collected_data.company_info = {}
    /\ collected_data.news = <<>>
    /\ collected_data.stock_performance.current_price = Unavailable
    /\ CitationKinds = <<"Stock">>
    /\ collected_data.data_quality = "low"

\* validate_data has finished.
Validated == Called("validate_data")

\* C26: for every profile collect_data returns, the validation passes if and
\* only if data_quality is not "error"; a tier of low, medium or high never
\* makes it fail.
C26_ValidationIffNotError ==
    Validated =>
        /\ state.raw_data = collected_data
        /\ state.validation_passed <=> collected_data.data_quality # "error"
        /\ collected_data.data_quality \in {"low", "medium", "high"}
              => state.validation_passed

\* A profile of tier low that holds the stock citation and nothing else has
\* passed the validation.
C26_Witness ==
    /\ Validated
    /\ collected_data.data_quality = "low"
    /\ DOMAIN collected_data.company_info = {}
    /\ collected_data.news = <<>>
    /\ Len(collected_data.sources) = 1
    /\ state.validation_passed

\* The list a is the beginning of the list b.
IsPrefix(a, b) == Len(a) <= Len(b) /\ a = SubSeq(b, 1, Len(a))

\* The evidence of info is kept in info2, which may hold more.
Retained(info, info2) ==
    /\ IsPrefix(info.prices_found, info2.prices_found)
    /\ IsPrefix(info.trends_found, info2.trends_found)
    /\ IsPrefix(info.recommendations_found, info2.recommendations_found)
    /\ IsPrefix(info.sources_checked, info2.sources_checked)

\* The search loop was left before its fourth query had been processed to
\* the end: a query, or the processing of a result, raised.
LoopLeftEarly == pc \in {"aggregate", "done"} /\ 0 < queries /\ queries < NumQueries

\* C27: in the web-search stock path the queries are issued one at a time,
\* at most four; a step of the loop never loses evidence extracted before
\* it; once the loop is left, by the fourth query or by an exception, no
\* further query is issued and the evidence is not touched; and the
\* aggregation runs exactly once, over the evidence retained.
C27_RaiseKeepsEvidence ==
    /\ [](/\ TimesCalled("search") = queries
          /\ queries <= NumQueries
          /\ TimesCalled("aggregate") <= 1
          /\ (pc = "done" /\ Called("search")) =>
                /\ TimesCalled("aggregate") = 1
                /\ \E display \in PriceDisplays(AvgPrice(stock_info.prices_found)) :
                      result = AggregateStockFindings(stock_info, display))
    /\ [][/\ pc = "scrape" =>
                /\ queries' = queries + 1
                /\ Retained(stock_info, stock_info')
                /\ pc' \in {"scrape", "aggregate"}
          /\ pc = "aggregate" =>
                /\ pc' = "done"
                /\ calls' = Append(calls, "aggregate")
          /\ pc \in {"aggregate", "done"} =>
                /\ queries' = queries
                /\ stock_info' = stock_info]_vars

\* The second query raised: the evidence of the first is in the signal, and
\* the third and fourth queries were not issued.
C27_Witness ==
    /\ pc = "done"
    /\ LoopLeftEarly
    /\ queries = 2
    /\ TimesCalled("search") = 2
    /\ TimesCalled("aggregate") = 1
    /\ stock_info.prices_found # <<>>
    /\ stock_info.sources_checked # <<>>
    /\ result.current_price.text = "rupees"

=============================================================================
